---- MODULE Spec2Model ----
(***************************************************************************)
(* Model of github.com/yaadata/optionsgo: the Option and Result containers *)
(* of package internal and the free functions of package extension.        *)
(*                                                                         *)
(* The program state is the set of container instances the caller has      *)
(* created (two heaps, addressed by allocation order), the caller's own    *)
(* variable whose address may be handed to OptionFromPointer, and a record *)
(* of the last call with its outcome (return value or panic, and the       *)
(* callbacks that ran).                                                    *)
(***************************************************************************)
EXTENDS Integers, Sequences, FiniteSets, TLC

VARIABLES T, opts, ress, mem, last, race

vars == <<T, opts, ress, mem, last, race>>

\* ---------------------------------------------------------------- bounds
\* The number of containers the caller keeps.
MaxObjects == 3

\* The number of containers counting those that nesting, flattening and
\* transposing add to the ones the caller keeps.
MaxNested == 6

\* The number of goroutines that call Replace on the shared option.
NumWriters == 2

\* ---------------------------------------------------------------- values
\* A Go value is a record: its dynamic kind k, an address a (pointers, maps,
\* errors and containers have identity) and a content c.
Val(k, a, c) == [k |-> k, a |-> a, c |-> c]

NilV == Val("nil", 0, 0)
IntV(n) == Val("int", 0, n)
PtrV(addr, n) == Val("ptr", addr, n)
MapV(addr, n) == Val("map", addr, n)
ErrV(addr, n) == Val("err", addr, n)
BoolV(b) == Val("bool", 0, IF b THEN 1 ELSE 0)
OptRef(i) == Val("opt", i, 0)
ResRef(i) == Val("res", i, 0)

\* The instantiations of the type parameter T.
Types == {"int", "ptr", "map", "any"}

\* Element types of a container: T itself, error, Option[T], Result[T] and
\* Option[Option[T]].
Elems == {"T", "err", "opt", "res", "optopt"}

\* The element type of the element type: Option[Option[T]] holds Option[T],
\* Option[T] holds T.
Inner(e) == IF e = "optopt" THEN "opt" ELSE "T"

ValuesOfT(t) ==
  CASE t = "int" -> {IntV(0), IntV(1)}
    [] t = "ptr" -> {PtrV(1, 0), PtrV(2, 0)}
    [] t = "map" -> {MapV(1, 0), MapV(2, 0)}
    [] t = "any" -> {NilV, IntV(1)}

Errors == {ErrV(1, 0), ErrV(2, 0)}

\* *new(T): the zero value of an element type.
Zero(e) ==
  IF e = "T"
    THEN CASE T = "int" -> IntV(0)
           [] T = "ptr" -> PtrV(0, 0)
           [] T = "map" -> MapV(0, 0)
           [] T = "any" -> NilV
    ELSE NilV

\* ---------------------------------------------------------------- pointers
\* The field `value *T`: nil, a pointer to a private copy made by the
\* container (cell = 0, the copy is val), or a pointer the caller supplied
\* (cell = 1: it points to the caller's variable mem).
NilPtr == [nil |-> TRUE, cell |-> 0, val |-> NilV]
Own(v) == [nil |-> FALSE, cell |-> 0, val |-> v]
CellPtr == [nil |-> FALSE, cell |-> 1, val |-> NilV]

Deref(p) == IF p.cell = 0 THEN p.val ELSE mem

NilDeref == "runtime error: invalid memory address or nil pointer dereference"

\* ---------------------------------------------------------------- outcomes
\* What a call did: the panic value ("" when it returned), the returned
\* value, the heaps after the call and the callback invocations in order.
Ret(v, os, rs, cs) == [panic |-> "", ret |-> v, opts |-> os, ress |-> rs, calls |-> cs]
Panic(m, os, rs, cs) == [panic |-> m, ret |-> NilV, opts |-> os, ress |-> rs, calls |-> cs]
Invoked(f, v) == [fn |-> f, arg |-> v]
Invoked2(f, v, w) == [fn |-> f, arg |-> v, arg2 |-> w]

\* ---------------------------------------------------------------- callbacks
\* shared.Predicate[T]: the predicates the caller passes.
Preds == {"always", "never", "isFirst"}

ApplyPred(p, v) ==
  CASE p = "always" -> TRUE
    [] p = "never" -> FALSE
    [] p = "isFirst" -> (v.a = 1 \/ v.c = 1)

\* func(T) V with V = T: the identity, and the function that exchanges the
\* two values of T.
Fns == {"id", "swap"}

ApplyFn(f, v) ==
  IF f = "swap" /\ v \in ValuesOfT(T)
    THEN CHOOSE w \in ValuesOfT(T) : w # v
    ELSE v

\* func(a, b T) T
Combines == {"left", "right"}

ApplyCombine(f, a, b) == IF f = "left" THEN a ELSE b

\* ---------------------------------------------------------------- reflect
\* reflect.TypeOf(v).Comparable() for a non-nil dynamic type.
Comparable(v) == v.k # "map"

RECURSIVE DeepEqual(_, _)

\* reflect.DeepEqual on two pointers to values: equal pointers, or deeply
\* equal pointees.
PtrDeepEqual(p, q) ==
  IF p.nil \/ q.nil
    THEN p.nil = q.nil
    ELSE (p.cell # 0 /\ p.cell = q.cell) \/ DeepEqual(Deref(p), Deref(q))

\* reflect.DeepEqual: values of different dynamic types are never equal,
\* pointers are followed, maps are compared by content.
DeepEqual(x, y) ==
  IF x.k = "nil" \/ y.k = "nil" THEN x.k = y.k
  ELSE IF x.k # y.k THEN FALSE
  ELSE CASE x.k \in {"int", "bool"} -> x.c = y.c
         [] x.k \in {"ptr", "err"} ->
              IF x.a = y.a THEN TRUE
              ELSE IF x.a = 0 \/ y.a = 0 THEN FALSE
              ELSE x.c = y.c
         [] x.k = "map" -> ((x.a = 0) = (y.a = 0)) /\ x.c = y.c
         [] x.k = "opt" ->
              x.a = y.a \/ PtrDeepEqual(opts[x.a].value, opts[y.a].value)
         [] x.k = "res" ->
              x.a = y.a \/ (/\ PtrDeepEqual(ress[x.a].value, ress[y.a].value)
                            /\ DeepEqual(ress[x.a].err, ress[y.a].err))

\* ---------------------------------------------------------------- result
result(e, p, err) == [elem |-> e, value |-> p, err |-> err]

Err(rs, e, err) == Append(rs, result(e, NilPtr, err))

Ok(rs, e, value) == Append(rs, result(e, Own(value), NilV))

\* ResultFromReturn that ignores the error.
ResultFromReturn_noerr(rs, e, value, err) == Append(rs, result(e, Own(value), NilV))

ResultFromReturn(rs, e, value, err) ==
  IF err # NilV
    THEN Err(rs, e, err)
    ELSE Append(rs, result(e, Own(value), NilV))

NewRes(rs) == ResRef(Len(rs))

\* ---------------------------------------------------------------- option
option(e, p) == [elem |-> e, value |-> p]

\* OptionFromPointer that copies the value the pointer refers to.
OptionFromPointer_copy(os, e, p) ==
  Append(os, option(e, IF p.nil THEN NilPtr ELSE Own(Deref(p))))

OptionFromPointer(os, e, p) == Append(os, option(e, p))

None(os, e) == Append(os, option(e, NilPtr))

\* Some that makes a None of a nil value.
Some_nilIsNone(os, e, val) ==
  Append(os, option(e, IF val = NilV THEN NilPtr ELSE Own(val)))

Some(os, e, val) == Append(os, option(e, Own(val)))

New(os) == OptRef(Len(os))

R(v) == Ret(v, opts, ress, <<>>)
RC(v, cs) == Ret(v, opts, ress, cs)
P(m) == Panic(m, opts, ress, <<>>)

option_IsSome(i) == ~opts[i].value.nil

option_IsNone(i) == opts[i].value.nil

\* And with the operands exchanged.
option_And_swapped(i, other) ==
  IF opts[i].value.nil THEN R(OptRef(i)) ELSE R(OptRef(other))

option_And(i, other) ==
  IF option_IsNone(i) THEN R(OptRef(other)) ELSE R(OptRef(i))

option_IsSomeAnd(i, pred) ==
  IF ~opts[i].value.nil
    THEN RC(BoolV(ApplyPred(pred, Deref(opts[i].value))),
            <<Invoked(pred, Deref(opts[i].value))>>)
    ELSE R(BoolV(FALSE))

option_IsNoneOr(i, pred) ==
  IF ~opts[i].value.nil
    THEN RC(BoolV(ApplyPred(pred, Deref(opts[i].value))),
            <<Invoked(pred, Deref(opts[i].value))>>)
    ELSE R(BoolV(TRUE))

_FAILED_UNWRAP == "failed to unwrap None value"

\* Expect that drops the caller's message.
option_Expect_fixedmsg(i, msg) ==
  IF opts[i].value.nil THEN P(_FAILED_UNWRAP) ELSE R(Deref(opts[i].value))

option_Expect(i, msg) ==
  IF opts[i].value.nil THEN P(msg) ELSE R(Deref(opts[i].value))

option_Unwrap(i) == option_Expect(i, _FAILED_UNWRAP)

option_Equal(i, other) ==
  IF (option_IsNone(i) /\ option_IsNone(other)) \/ i = other
    THEN R(BoolV(TRUE))
  ELSE IF option_IsSome(i) /\ option_IsSome(other)
    THEN LET oValue == Deref(opts[i].value)
             otherValue == option_Unwrap(other)
         IN  IF otherValue.panic # "" THEN otherValue
             ELSE IF oValue.k = "nil" THEN P(NilDeref)
             ELSE IF Comparable(oValue)
               THEN R(BoolV(DeepEqual(oValue, otherValue.ret)))
             ELSE R(BoolV(FALSE))
  ELSE R(BoolV(FALSE))

\* UnwrapOrElse that runs the supplier before it looks at the receiver.
option_UnwrapOrElse_eager(i, supplied) ==
  IF opts[i].value.nil
    THEN RC(supplied, <<Invoked("supplier", NilV)>>)
    ELSE RC(Deref(opts[i].value), <<Invoked("supplier", NilV)>>)

\* fn is the supplier that returns the value `supplied`.
option_UnwrapOrElse(i, supplied) ==
  IF opts[i].value.nil
    THEN RC(supplied, <<Invoked("supplier", NilV)>>)
    ELSE R(Deref(opts[i].value))

\* UnwrapOrDefault that stores the default in a None receiver.
option_UnwrapOrDefault_insert(i) ==
  IF opts[i].value.nil
    THEN Ret(Zero(opts[i].elem), [opts EXCEPT ![i].value = Own(Zero(opts[i].elem))],
             ress, <<>>)
    ELSE R(Deref(opts[i].value))

option_UnwrapOrDefault(i) ==
  IF opts[i].value.nil THEN R(Zero(opts[i].elem)) ELSE R(Deref(opts[i].value))

\* Filter that keeps the values the predicate rejects.
option_Filter_negated(i, pred) ==
  IF opts[i].value.nil
    THEN Ret(New(None(opts, opts[i].elem)), None(opts, opts[i].elem), ress, <<>>)
  ELSE IF ~ApplyPred(pred, Deref(opts[i].value))
    THEN RC(OptRef(i), <<Invoked(pred, Deref(opts[i].value))>>)
  ELSE Ret(New(None(opts, opts[i].elem)), None(opts, opts[i].elem), ress,
           <<Invoked(pred, Deref(opts[i].value))>>)

option_Filter(i, pred) ==
  IF opts[i].value.nil
    THEN Ret(New(None(opts, opts[i].elem)), None(opts, opts[i].elem), ress, <<>>)
  ELSE IF ApplyPred(pred, Deref(opts[i].value))
    THEN RC(OptRef(i), <<Invoked(pred, Deref(opts[i].value))>>)
  ELSE Ret(New(None(opts, opts[i].elem)), None(opts, opts[i].elem), ress,
           <<Invoked(pred, Deref(opts[i].value))>>)

option_Inspect(i) ==
  IF option_IsSome(i)
    THEN LET u == option_Unwrap(i)
         IN  IF u.panic # "" THEN u
             ELSE RC(OptRef(i), <<Invoked("inspect", u.ret)>>)
    ELSE R(OptRef(i))

option_OkOr(i, err) ==
  IF option_IsSome(i)
    THEN Ret(NewRes(Ok(ress, opts[i].elem, Deref(opts[i].value))), opts,
             Ok(ress, opts[i].elem, Deref(opts[i].value)), <<>>)
    ELSE Ret(NewRes(Err(ress, opts[i].elem, err)), opts,
             Err(ress, opts[i].elem, err), <<>>)

\* fn is the supplier that returns the error `supplied`.
option_OkOrElse(i, supplied) ==
  IF option_IsSome(i)
    THEN Ret(NewRes(Ok(ress, opts[i].elem, Deref(opts[i].value))), opts,
             Ok(ress, opts[i].elem, Deref(opts[i].value)), <<>>)
    ELSE Ret(NewRes(Err(ress, opts[i].elem, supplied)), opts,
             Err(ress, opts[i].elem, supplied), <<Invoked("supplier", NilV)>>)

option_Or(i, optb) ==
  IF option_IsNone(i) THEN R(OptRef(optb)) ELSE R(OptRef(i))

\* fn is the supplier that returns the option `supplied`.
option_OrElse(i, supplied) ==
  IF option_IsNone(i)
    THEN RC(OptRef(supplied), <<Invoked("supplier", NilV)>>)
    ELSE R(OptRef(i))

\* Reduce that keeps the receiver instead of combining.
option_Reduce_nocombine(i, optb, fn) ==
  IF opts[i].value.nil THEN R(OptRef(optb)) ELSE R(OptRef(i))

option_Reduce(i, optb, fn) ==
  IF option_IsNone(i) THEN R(OptRef(optb))
  ELSE IF option_IsSome(optb)
    THEN LET a == option_Unwrap(i)
             b == option_Unwrap(optb)
             c == ApplyCombine(fn, a.ret, b.ret)
         IN  IF a.panic # "" THEN a
             ELSE IF b.panic # "" THEN b
             ELSE Ret(New(Some(opts, opts[i].elem, c)), Some(opts, opts[i].elem, c),
                      ress, <<Invoked2(fn, a.ret, b.ret)>>)
  ELSE R(OptRef(i))

\* Replace that only fills an empty option.
option_Replace_ifnone(i, value) ==
  IF opts[i].value.nil
    THEN Ret(OptRef(i), [opts EXCEPT ![i].value = Own(value)], ress, <<>>)
    ELSE R(OptRef(i))

\* Replace that leaves the receiver alone and returns a new Some.
option_Replace_copy(i, value) ==
  Ret(New(Some(opts, opts[i].elem, value)), Some(opts, opts[i].elem, value), ress, <<>>)

option_Replace(i, value) ==
  Ret(OptRef(i), [opts EXCEPT ![i].value = Own(value)], ress, <<>>)

\* XOr that behaves as an inclusive or.
option_XOr_inclusive(i, optb) ==
  IF ~opts[i].value.nil THEN R(OptRef(i))
  ELSE IF ~opts[optb].value.nil THEN R(OptRef(optb))
  ELSE Ret(New(None(opts, opts[i].elem)), None(opts, opts[i].elem), ress, <<>>)

option_XOr(i, optb) ==
  IF option_IsSome(i)
    THEN IF option_IsSome(optb)
           THEN Ret(New(None(opts, opts[i].elem)), None(opts, opts[i].elem), ress, <<>>)
           ELSE R(OptRef(i))
  ELSE IF option_IsSome(optb) THEN R(OptRef(optb))
  ELSE Ret(New(None(opts, opts[i].elem)), None(opts, opts[i].elem), ress, <<>>)

\* fn returns the option `supplied`, a Option[V].
OptionAndThen(i, supplied) ==
  IF option_IsNone(i)
    THEN Ret(New(None(opts, opts[supplied].elem)), None(opts, opts[supplied].elem),
             ress, <<>>)
    ELSE LET u == option_Unwrap(i)
         IN  IF u.panic # "" THEN u
             ELSE RC(OptRef(supplied), <<Invoked("fn", u.ret)>>)

\* OptionMap that applies fn to the zero value when the option is None.
OptionMap_onNone(i, fn) ==
  IF ~opts[i].value.nil
    THEN Ret(New(Some(opts, opts[i].elem, ApplyFn(fn, Deref(opts[i].value)))),
             Some(opts, opts[i].elem, ApplyFn(fn, Deref(opts[i].value))), ress,
             <<Invoked(fn, Deref(opts[i].value))>>)
    ELSE Ret(New(Some(opts, opts[i].elem, ApplyFn(fn, Zero(opts[i].elem)))),
             Some(opts, opts[i].elem, ApplyFn(fn, Zero(opts[i].elem))), ress,
             <<Invoked(fn, Zero(opts[i].elem))>>)

OptionMap(i, fn) ==
  IF option_IsSome(i)
    THEN LET u == option_Unwrap(i)
         IN  IF u.panic # "" THEN u
             ELSE Ret(New(Some(opts, opts[i].elem, ApplyFn(fn, u.ret))),
                      Some(opts, opts[i].elem, ApplyFn(fn, u.ret)), ress,
                      <<Invoked(fn, u.ret)>>)
    ELSE Ret(New(None(opts, opts[i].elem)), None(opts, opts[i].elem), ress, <<>>)

OptionMapOr(i, fn, or) ==
  IF option_IsSome(i)
    THEN LET u == option_Unwrap(i)
         IN  IF u.panic # "" THEN u
             ELSE RC(ApplyFn(fn, u.ret), <<Invoked(fn, u.ret)>>)
    ELSE R(or)

\* orElse is the supplier that returns the value `supplied`.
OptionMapOrElse(i, fn, supplied) ==
  IF option_IsSome(i)
    THEN LET u == option_Unwrap(i)
         IN  IF u.panic # "" THEN u
             ELSE RC(ApplyFn(fn, u.ret), <<Invoked(fn, u.ret)>>)
    ELSE RC(supplied, <<Invoked("supplier", NilV)>>)

option_AndThen(i, supplied) == OptionAndThen(i, supplied)

option_Map(i, fn) == OptionMap(i, fn)

option_MapOr(i, fn, or) == OptionMapOr(i, fn, or)

option_MapOrElse(i, fn, supplied) == OptionMapOrElse(i, fn, supplied)

\* ---------------------------------------------------------------- result methods
result_IsOk(r) == ~ress[r].value.nil

result_IsError(r) == ress[r].err # NilV

\* Ok() that takes the value out of the receiver.
result_Ok_consuming(r) ==
  IF ress[r].value.nil
    THEN Ret(New(None(opts, ress[r].elem)), None(opts, ress[r].elem), ress, <<>>)
    ELSE Ret(New(Some(opts, ress[r].elem, Deref(ress[r].value))),
             Some(opts, ress[r].elem, Deref(ress[r].value)),
             [ress EXCEPT ![r].value = NilPtr], <<>>)

result_Ok(r) ==
  IF ress[r].value.nil
    THEN Ret(New(None(opts, ress[r].elem)), None(opts, ress[r].elem), ress, <<>>)
    ELSE Ret(New(Some(opts, ress[r].elem, Deref(ress[r].value))),
             Some(opts, ress[r].elem, Deref(ress[r].value)), ress, <<>>)

result_Expect(r, msg) ==
  IF result_IsError(r) THEN P(msg)
  ELSE IF ress[r].value.nil THEN P(NilDeref)
  ELSE R(Deref(ress[r].value))

result_ExpectErr(r, msg) ==
  IF result_IsOk(r) THEN P(msg) ELSE R(ress[r].err)

result_Err(r) ==
  IF ress[r].err = NilV
    THEN Ret(New(None(opts, "err")), None(opts, "err"), ress, <<>>)
    ELSE Ret(New(Some(opts, "err", ress[r].err)), Some(opts, "err", ress[r].err),
             ress, <<>>)

result_IsOkAnd(r, pred) ==
  IF result_IsOk(r)
    THEN RC(BoolV(ApplyPred(pred, Deref(ress[r].value))),
            <<Invoked(pred, Deref(ress[r].value))>>)
    ELSE R(BoolV(FALSE))

\* IsErrorAnd that runs the predicate whatever the variant.
result_IsErrorAnd_always(r, pred) ==
  RC(BoolV(ApplyPred(pred, ress[r].err)), <<Invoked(pred, ress[r].err)>>)

result_IsErrorAnd(r, pred) ==
  IF result_IsError(r)
    THEN RC(BoolV(ApplyPred(pred, ress[r].err)), <<Invoked(pred, ress[r].err)>>)
    ELSE R(BoolV(FALSE))

_FAILED_UNWRAP_OK == "cannot unwrap Err result to value"

_FAILED_UNWRAP_ERR == "cannot unwrap Ok result to error"

result_Unwrap(r) == result_Expect(r, _FAILED_UNWRAP_OK)

result_UnwrapErr(r) == result_ExpectErr(r, _FAILED_UNWRAP_ERR)

result_Inspect(r) ==
  IF result_IsOk(r)
    THEN LET u == result_Unwrap(r)
         IN  IF u.panic # "" THEN u
             ELSE RC(ResRef(r), <<Invoked("inspect", u.ret)>>)
    ELSE R(ResRef(r))

\* InspectErr that never runs the callback.
result_InspectErr_silent(r) == R(ResRef(r))

result_InspectErr(r) ==
  IF result_IsError(r)
    THEN LET u == result_UnwrapErr(r)
         IN  IF u.panic # "" THEN u
             ELSE RC(ResRef(r), <<Invoked("inspectErr", u.ret)>>)
    ELSE R(ResRef(r))

\* ResultMap that applies fn to the zero value when there is no value.
ResultMap_onErr(r, fn) ==
  IF ~ress[r].value.nil
    THEN Ret(NewRes(Ok(ress, ress[r].elem, ApplyFn(fn, Deref(ress[r].value)))), opts,
             Ok(ress, ress[r].elem, ApplyFn(fn, Deref(ress[r].value))),
             <<Invoked(fn, Deref(ress[r].value))>>)
    ELSE Ret(NewRes(Ok(ress, ress[r].elem, ApplyFn(fn, Zero(ress[r].elem)))), opts,
             Ok(ress, ress[r].elem, ApplyFn(fn, Zero(ress[r].elem))),
             <<Invoked(fn, Zero(ress[r].elem))>>)

ResultMap(r, fn) ==
  IF result_IsOk(r)
    THEN LET u == result_Unwrap(r)
         IN  IF u.panic # "" THEN u
             ELSE Ret(NewRes(Ok(ress, ress[r].elem, ApplyFn(fn, u.ret))), opts,
                      Ok(ress, ress[r].elem, ApplyFn(fn, u.ret)),
                      <<Invoked(fn, u.ret)>>)
    ELSE LET e == result_UnwrapErr(r)
         IN  IF e.panic # "" THEN e
             ELSE Ret(NewRes(Err(ress, ress[r].elem, e.ret)), opts,
                      Err(ress, ress[r].elem, e.ret), <<>>)

\* ResultMapOr that propagates the error as ResultMap does.
ResultMapOr_propagates(r, fn, or) ==
  IF ~ress[r].value.nil
    THEN Ret(NewRes(Ok(ress, ress[r].elem, ApplyFn(fn, Deref(ress[r].value)))), opts,
             Ok(ress, ress[r].elem, ApplyFn(fn, Deref(ress[r].value))),
             <<Invoked(fn, Deref(ress[r].value))>>)
    ELSE Ret(NewRes(Err(ress, ress[r].elem, ress[r].err)), opts,
             Err(ress, ress[r].elem, ress[r].err), <<>>)

ResultMapOr(r, fn, or) ==
  IF result_IsOk(r)
    THEN LET u == result_Unwrap(r)
         IN  IF u.panic # "" THEN u
             ELSE Ret(NewRes(Ok(ress, ress[r].elem, ApplyFn(fn, u.ret))), opts,
                      Ok(ress, ress[r].elem, ApplyFn(fn, u.ret)),
                      <<Invoked(fn, u.ret)>>)
    ELSE Ret(NewRes(Ok(ress, ress[r].elem, or)), opts, Ok(ress, ress[r].elem, or), <<>>)

\* orElse is the function that returns the value `supplied` for any error.
ResultMapOrElse(r, fn, supplied) ==
  IF result_IsOk(r)
    THEN LET u == result_Unwrap(r)
         IN  IF u.panic # "" THEN u
             ELSE Ret(NewRes(Ok(ress, ress[r].elem, ApplyFn(fn, u.ret))), opts,
                      Ok(ress, ress[r].elem, ApplyFn(fn, u.ret)),
                      <<Invoked(fn, u.ret)>>)
    ELSE LET e == result_UnwrapErr(r)
         IN  IF e.panic # "" THEN e
             ELSE Ret(NewRes(Ok(ress, ress[r].elem, supplied)), opts,
                      Ok(ress, ress[r].elem, supplied), <<Invoked("orElse", e.ret)>>)

result_Map(r, fn) == ResultMap(r, fn)

result_MapOr(r, fn, or) == ResultMapOr(r, fn, or)

result_MapOrElse(r, fn, supplied) == ResultMapOrElse(r, fn, supplied)

\* fn is the function that returns the error `mapped` for any error.
result_MapErr(r, mapped) ==
  IF result_IsError(r)
    THEN LET e == result_UnwrapErr(r)
         IN  IF e.panic # "" THEN e
             ELSE Ret(NewRes(Err(ress, ress[r].elem, mapped)), opts,
                      Err(ress, ress[r].elem, mapped), <<Invoked("mapErr", e.ret)>>)
    ELSE R(ResRef(r))

\* Or that returns the alternative when the receiver is Ok.
result_Or_swapped(r, other) ==
  IF ress[r].err # NilV THEN R(ResRef(r)) ELSE R(ResRef(other))

result_Or(r, other) ==
  IF result_IsError(r) THEN R(ResRef(other)) ELSE R(ResRef(r))

\* fn is the function that returns the result `supplied` for any error.
result_OrElse(r, supplied) ==
  IF result_IsError(r)
    THEN LET e == result_UnwrapErr(r)
         IN  IF e.panic # "" THEN e
             ELSE RC(ResRef(supplied), <<Invoked("orElse", e.ret)>>)
    ELSE R(ResRef(r))

result_UnwrapOr(r, val) ==
  IF ress[r].value.nil THEN R(val) ELSE R(Deref(ress[r].value))

\* fn is the supplier that returns the value `supplied`.
result_UnwrapOrElse(r, supplied) ==
  IF ress[r].value.nil
    THEN RC(supplied, <<Invoked("supplier", NilV)>>)
    ELSE R(Deref(ress[r].value))

result_UnwrapOrDefault(r) ==
  IF ress[r].value.nil THEN R(Zero(ress[r].elem)) ELSE R(Deref(ress[r].value))

\* ---------------------------------------------------------------- extension
ResultAnd(r, other) ==
  IF result_IsOk(r) THEN R(ResRef(other))
  ELSE LET e == result_UnwrapErr(r)
       IN  IF e.panic # "" THEN e
           ELSE Ret(NewRes(Err(ress, ress[other].elem, e.ret)), opts,
                    Err(ress, ress[other].elem, e.ret), <<>>)

\* ResultAndThen that runs fn whatever the variant.
ResultAndThen_always(r, supplied) ==
  IF ~ress[r].value.nil
    THEN RC(ResRef(supplied), <<Invoked("fn", Deref(ress[r].value))>>)
    ELSE RC(ResRef(supplied), <<Invoked("fn", Zero(ress[r].elem))>>)

\* fn is the function that returns the result `supplied` for any value.
ResultAndThen(r, supplied) ==
  IF result_IsOk(r)
    THEN LET u == result_Unwrap(r)
         IN  IF u.panic # "" THEN u
             ELSE RC(ResRef(supplied), <<Invoked("fn", u.ret)>>)
    ELSE LET e == result_UnwrapErr(r)
         IN  IF e.panic # "" THEN e
             ELSE Ret(NewRes(Err(ress, ress[supplied].elem, e.ret)), opts,
                      Err(ress, ress[supplied].elem, e.ret), <<>>)

\* OptionFlatten that flattens two levels where there are two.
OptionFlatten_deep(i) ==
  IF option_IsNone(i)
    THEN Ret(New(None(opts, Inner(opts[i].elem))), None(opts, Inner(opts[i].elem)),
             ress, <<>>)
  ELSE IF opts[i].elem = "optopt" /\ ~opts[Deref(opts[i].value).a].value.nil
    THEN option_Unwrap(Deref(opts[i].value).a)
  ELSE option_Unwrap(i)

OptionFlatten(i) ==
  IF option_IsNone(i)
    THEN Ret(New(None(opts, Inner(opts[i].elem))), None(opts, Inner(opts[i].elem)),
             ress, <<>>)
    ELSE option_Unwrap(i)

\* OptionTranspose that keeps the variant and loses the value: Some(Ok(v))
\* becomes Ok(Some(zero)).
OptionTranspose_zeroed(i) ==
  IF option_IsNone(i)
    THEN Ret(NewRes(Ok(ress, "opt", New(None(opts, "T")))), None(opts, "T"),
             Ok(ress, "opt", New(None(opts, "T"))), <<>>)
    ELSE LET res == option_Unwrap(i)
         IN  IF res.panic # "" THEN res
             ELSE IF result_IsError(res.ret.a)
               THEN LET e == result_UnwrapErr(res.ret.a)
                    IN  IF e.panic # "" THEN e
                        ELSE Ret(NewRes(Err(ress, "opt", e.ret)), opts,
                                 Err(ress, "opt", e.ret), <<>>)
             ELSE Ret(NewRes(Ok(ress, "opt", New(Some(opts, "T", Zero("T"))))),
                      Some(opts, "T", Zero("T")),
                      Ok(ress, "opt", New(Some(opts, "T", Zero("T")))), <<>>)

\* OptionTranspose that turns a held error into Ok(None).
OptionTranspose_okOnErr(i) ==
  IF option_IsNone(i) \/ result_IsError(Deref(opts[i].value).a)
    THEN Ret(NewRes(Ok(ress, "opt", New(None(opts, "T")))), None(opts, "T"),
             Ok(ress, "opt", New(None(opts, "T"))), <<>>)
    ELSE LET u == result_Unwrap(Deref(opts[i].value).a)
         IN  IF u.panic # "" THEN u
             ELSE Ret(NewRes(Ok(ress, "opt", New(Some(opts, "T", u.ret)))),
                      Some(opts, "T", u.ret),
                      Ok(ress, "opt", New(Some(opts, "T", u.ret))), <<>>)

OptionTranspose(i) ==
  IF option_IsNone(i)
    THEN Ret(NewRes(Ok(ress, "opt", New(None(opts, "T")))), None(opts, "T"),
             Ok(ress, "opt", New(None(opts, "T"))), <<>>)
    ELSE LET res == option_Unwrap(i)
         IN  IF res.panic # "" THEN res
             ELSE IF result_IsError(res.ret.a)
               THEN LET e == result_UnwrapErr(res.ret.a)
                    IN  IF e.panic # "" THEN e
                        ELSE Ret(NewRes(Err(ress, "opt", e.ret)), opts,
                                 Err(ress, "opt", e.ret), <<>>)
             ELSE LET u == result_Unwrap(res.ret.a)
                  IN  IF u.panic # "" THEN u
                      ELSE Ret(NewRes(Ok(ress, "opt", New(Some(opts, "T", u.ret)))),
                               Some(opts, "T", u.ret),
                               Ok(ress, "opt", New(Some(opts, "T", u.ret))), <<>>)

\* ResultTranspose, the inverse of OptionTranspose: Err(e) becomes
\* Some(Err(e)), Ok(None) becomes None and Ok(Some(v)) becomes Some(Ok(v)).
ResultTranspose(r) ==
  IF result_IsError(r)
    THEN LET e == result_UnwrapErr(r)
         IN  IF e.panic # "" THEN e
             ELSE Ret(New(Some(opts, "res", NewRes(Err(ress, "T", e.ret)))),
                      Some(opts, "res", NewRes(Err(ress, "T", e.ret))),
                      Err(ress, "T", e.ret), <<>>)
    ELSE LET opt == result_Unwrap(r)
         IN  IF opt.panic # "" THEN opt
             ELSE IF option_IsNone(opt.ret.a)
               THEN Ret(New(None(opts, "res")), None(opts, "res"), ress, <<>>)
             ELSE LET u == option_Unwrap(opt.ret.a)
                  IN  IF u.panic # "" THEN u
                      ELSE Ret(New(Some(opts, "res", NewRes(Ok(ress, "T", u.ret)))),
                               Some(opts, "res", NewRes(Ok(ress, "T", u.ret))),
                               Ok(ress, "T", u.ret), <<>>)

\* ---------------------------------------------------------------- typed
\* The types the type parameter of MustCast and CastOrZero is instantiated
\* with: three concrete types and the interface types any and error.
CastTypes == {"int", "ptr", "map", "any", "error"}

\* `original any`: the nil interface value, and values of dynamic type int,
\* pointer (the nil pointer among them), map, error and bool.
AnyValues ==
  {NilV, IntV(0), IntV(1), PtrV(0, 0), PtrV(1, 0), MapV(1, 0), ErrV(1, 0),
   BoolV(TRUE)}

\* *new(V)
ZeroOf(t) ==
  CASE t = "int" -> IntV(0)
    [] t = "ptr" -> PtrV(0, 0)
    [] t = "map" -> MapV(0, 0)
    [] OTHER -> NilV

\* A type switch that lets the nil interface value match an interface type.
CaseMatches_nil(original, t) ==
  CASE t = "any" -> TRUE
    [] t = "error" -> original.k \in {"err", "nil"}
    [] OTHER -> original.k = t

\* `switch o := original.(type) { case T:`: the nil interface value matches
\* no case, a concrete T matches the identical dynamic type, an interface T
\* matches every dynamic type that implements it.
CaseMatches(original, t) ==
  /\ original.k # "nil"
  /\ CASE t = "any" -> TRUE
       [] t = "error" -> original.k = "err"
       [] OTHER -> original.k = t

_FAILED_COERCE == "failed to coerce type"

MustCast(t, original) ==
  IF CaseMatches(original, t) THEN R(original) ELSE P(_FAILED_COERCE)

CastOrZero(v, original) ==
  IF CaseMatches(original, v) THEN R(original) ELSE R(ZeroOf(v))

\* ---------------------------------------------------------------- goroutines
\* One option shared by goroutines without synchronisation. field is its
\* value field: NilField, InitialValue (the pointer it held when the
\* goroutines started, to a variable holding init) or w (the pointer to the
\* variable `value` of writer w's Replace call, whose content is cells[w]).
\* done[w] are the writes of writer w that have taken effect in memory, and
\* readers[r] is how far reader r has got.
Writers == 1..NumWriters

\* The goroutines that call a reading method. Readers write nothing, so what
\* one reader observes does not depend on the other readers, and one reader
\* running any of the methods stands for each of them.
Readers == {"reader"}

NilField == -1

InitialValue == 0

NoRace == [init |-> NilV, args |-> <<>>, field |-> InitialValue, cells |-> <<>>,
           done |-> <<>>, readers |-> <<>>]

\* The methods the readers call.
ReaderOps ==
  {"IsSome", "Unwrap", "Expect", "UnwrapOrElse", "UnwrapOrDefault", "Filter",
   "Inspect", "OkOr", "Map"}

\* The reads of o.value a method makes before it reads the variable o.value
\* points to: IsSome one (and no read of the variable), Expect the nil check
\* and the dereference, the methods built on IsSome and Unwrap or Expect
\* three.
FieldReads(op) ==
  CASE op = "IsSome" -> 1
    [] op \in {"Inspect", "Map"} -> 3
    [] OTHER -> 2

\* What a method does when a read of o.value finds nil: Unwrap and Expect
\* panic at the nil check, every method panics when the dereference or the
\* Unwrap inside it finds nil, and the other methods take their None branch
\* at the first check.
OnNil(op, reads) ==
  IF op \in {"Unwrap", "Expect"} \/ reads > 0 THEN "panic" ELSE "none"

\* The variable a pointer read from the field points to.
Pointee(p) == IF p = InitialValue THEN race.init ELSE race.cells[p]

\* Replace that empties the option.
option_Replace_assign_nil(w) ==
  [race EXCEPT !.field = NilField, !.done[w] = @ \cup {"assign"}]

\* `o.value = &value`
option_Replace_assign(w) ==
  [race EXCEPT !.field = w, !.done[w] = @ \cup {"assign"}]

\* The store of the argument into the new variable `value` that Replace
\* takes the address of; before it the variable holds the zero value it was
\* allocated with.
option_Replace_value(w) ==
  [race EXCEPT !.cells[w] = race.args[w], !.done[w] = @ \cup {"value"}]

\* ---------------------------------------------------------------- machine
\* The last call: the operation, its receiver (with the receiver's value
\* field before the call), its arguments and its outcome.
NoCall == [op |-> "", recv |-> NilV, pre |-> NilPtr, arg |-> NilV, cb |-> "",
           msg |-> "", panic |-> "", ret |-> NilV, calls |-> <<>>]

Before(recv) ==
  CASE recv.k = "opt" -> opts[recv.a].value
    [] recv.k = "res" -> ress[recv.a].value
    [] OTHER -> NilPtr

Init ==
  /\ T \in Types
  /\ opts = <<>>
  /\ ress = <<>>
  /\ mem \in ValuesOfT(T)
  /\ last = NoCall
  /\ race = NoRace

\* A call starts when the caller has consumed the outcome of the previous one.
Call(name, recv, arg, cb, msg, out) ==
  /\ last = NoCall
  /\ Len(out.opts) + Len(out.ress) <= MaxObjects
  /\ opts' = out.opts
  /\ ress' = out.ress
  /\ last' = [op |-> name, recv |-> recv, pre |-> Before(recv), arg |-> arg,
              cb |-> cb, msg |-> msg, panic |-> out.panic, ret |-> out.ret,
              calls |-> out.calls]
  /\ UNCHANGED <<T, mem, race>>

\* A call that builds or takes apart nested containers.
CallNested(name, recv, arg, cb, msg, out) ==
  /\ last = NoCall
  /\ Len(out.opts) + Len(out.ress) <= MaxNested
  /\ opts' = out.opts
  /\ ress' = out.ress
  /\ last' = [op |-> name, recv |-> recv, pre |-> Before(recv), arg |-> arg,
              cb |-> cb, msg |-> msg, panic |-> out.panic, ret |-> out.ret,
              calls |-> out.calls]
  /\ UNCHANGED <<T, mem, race>>

\* A call made on the value the previous call returned, as in f(g(x)) or
\* x.g().f(): recv is what the previous call was made on, arg the value it
\* returned.
Chain(name, recv, arg, cb, msg, out) ==
  /\ last # NoCall
  /\ last.panic = ""
  /\ Len(out.opts) + Len(out.ress) <= MaxNested
  /\ opts' = out.opts
  /\ ress' = out.ress
  /\ last' = [op |-> name, recv |-> recv, pre |-> Before(recv), arg |-> arg,
              cb |-> cb, msg |-> msg, panic |-> out.panic, ret |-> out.ret,
              calls |-> out.calls]
  /\ UNCHANGED <<T, mem, race>>

\* ---------------------------------------------------------------- inputs
Msgs == {"TEST", "test panic"}

ErrArgs == Errors \cup {NilV}

\* The values of an element type the caller can supply.
ElemValues(e) ==
  CASE e = "T" -> ValuesOfT(T)
    [] e = "err" -> ErrArgs
    [] e = "opt" -> {OptRef(j) : j \in {k \in DOMAIN opts : opts[k].elem = "T"}}
    [] e = "res" -> {ResRef(j) : j \in {k \in DOMAIN ress : ress[k].elem = "T"}}
    [] e = "optopt" -> {OptRef(j) : j \in {k \in DOMAIN opts : opts[k].elem = "opt"}}

FnsFor(e) == IF e = "T" THEN Fns ELSE {"id"}

SameElem(i, j) == opts[i].elem = opts[j].elem

SameElemR(i, j) == ress[i].elem = ress[j].elem

\* ---------------------------------------------------------------- constructors
DoSome(e) ==
  \E v \in ElemValues(e) :
    Call("Some", NilV, v, "", "", Ret(New(Some(opts, e, v)), Some(opts, e, v), ress, <<>>))

DoNone(e) ==
  /\ e \in Elems
  /\ Call("None", NilV, NilV, "", "", Ret(New(None(opts, e)), None(opts, e), ress, <<>>))

\* ptr is nil or the address of the caller's variable.
DoOptionFromPointer ==
  \E isNil \in BOOLEAN :
    LET ptr == IF isNil THEN NilPtr ELSE CellPtr
    IN  Call("OptionFromPointer", NilV, Val("cell", ptr.cell, 0), "", "",
             Ret(New(OptionFromPointer(opts, "T", ptr)),
                 OptionFromPointer(opts, "T", ptr), ress, <<>>))

DoOk(e) ==
  \E v \in ElemValues(e) :
    Call("Ok", NilV, v, "", "", Ret(NewRes(Ok(ress, e, v)), opts, Ok(ress, e, v), <<>>))

DoErr(e) ==
  \E err \in ErrArgs :
    Call("Err", NilV, err, "", "",
         Ret(NewRes(Err(ress, e, err)), opts, Err(ress, e, err), <<>>))

DoResultFromReturn ==
  \E v \in ElemValues("T") : \E err \in ErrArgs :
    Call("ResultFromReturn", v, err, "", "",
         Ret(NewRes(ResultFromReturn(ress, "T", v, err)), opts,
             ResultFromReturn(ress, "T", v, err), <<>>))

\* ---------------------------------------------------------------- option calls
DoOptionIsSome ==
  \E i \in DOMAIN opts :
    Call("Option.IsSome", OptRef(i), NilV, "", "", R(BoolV(option_IsSome(i))))

DoOptionIsNone ==
  \E i \in DOMAIN opts :
    Call("Option.IsNone", OptRef(i), NilV, "", "", R(BoolV(option_IsNone(i))))

DoOptionAnd ==
  \E i, j \in DOMAIN opts :
    SameElem(i, j) /\ Call("Option.And", OptRef(i), OptRef(j), "", "", option_And(i, j))

DoOptionOr ==
  \E i, j \in DOMAIN opts :
    SameElem(i, j) /\ Call("Option.Or", OptRef(i), OptRef(j), "", "", option_Or(i, j))

DoOptionOrElse ==
  \E i, j \in DOMAIN opts :
    SameElem(i, j)
    /\ Call("Option.OrElse", OptRef(i), OptRef(j), "", "", option_OrElse(i, j))

DoOptionXOr ==
  \E i, j \in DOMAIN opts :
    SameElem(i, j) /\ Call("Option.XOr", OptRef(i), OptRef(j), "", "", option_XOr(i, j))

DoOptionEqual ==
  \E i, j \in DOMAIN opts :
    SameElem(i, j)
    /\ Call("Option.Equal", OptRef(i), OptRef(j), "", "", option_Equal(i, j))

DoOptionReduce ==
  \E i, j \in DOMAIN opts : \E f \in Combines :
    SameElem(i, j)
    /\ Call("Option.Reduce", OptRef(i), OptRef(j), f, "", option_Reduce(i, j, f))

DoOptionIsSomeAnd ==
  \E i \in DOMAIN opts : \E p \in Preds :
    Call("Option.IsSomeAnd", OptRef(i), NilV, p, "", option_IsSomeAnd(i, p))

DoOptionIsNoneOr ==
  \E i \in DOMAIN opts : \E p \in Preds :
    Call("Option.IsNoneOr", OptRef(i), NilV, p, "", option_IsNoneOr(i, p))

DoOptionFilter ==
  \E i \in DOMAIN opts : \E p \in Preds :
    Call("Option.Filter", OptRef(i), NilV, p, "", option_Filter(i, p))

DoOptionInspect ==
  \E i \in DOMAIN opts :
    Call("Option.Inspect", OptRef(i), NilV, "inspect", "", option_Inspect(i))

DoOptionExpect ==
  \E i \in DOMAIN opts : \E m \in Msgs :
    Call("Option.Expect", OptRef(i), NilV, "", m, option_Expect(i, m))

DoOptionUnwrap ==
  \E i \in DOMAIN opts :
    Call("Option.Unwrap", OptRef(i), NilV, "", "", option_Unwrap(i))

DoOptionUnwrapOrElse ==
  \E i \in DOMAIN opts : \E v \in ElemValues(opts[i].elem) :
    Call("Option.UnwrapOrElse", OptRef(i), v, "supplier", "", option_UnwrapOrElse(i, v))

DoOptionUnwrapOrDefault ==
  \E i \in DOMAIN opts :
    Call("Option.UnwrapOrDefault", OptRef(i), NilV, "", "", option_UnwrapOrDefault(i))

DoOptionReplace ==
  \E i \in DOMAIN opts : \E v \in ElemValues(opts[i].elem) :
    Call("Option.Replace", OptRef(i), v, "", "", option_Replace(i, v))

DoOptionOkOr ==
  \E i \in DOMAIN opts : \E err \in ErrArgs :
    Call("Option.OkOr", OptRef(i), err, "", "", option_OkOr(i, err))

DoOptionOkOrElse ==
  \E i \in DOMAIN opts : \E err \in ErrArgs :
    Call("Option.OkOrElse", OptRef(i), err, "supplier", "", option_OkOrElse(i, err))

DoOptionAndThen ==
  \E i, j \in DOMAIN opts :
    Call("Option.AndThen", OptRef(i), OptRef(j), "fn", "", option_AndThen(i, j))

DoOptionMap ==
  \E i \in DOMAIN opts : \E f \in FnsFor(opts[i].elem) :
    Call("Option.Map", OptRef(i), NilV, f, "", option_Map(i, f))

DoOptionMapOr ==
  \E i \in DOMAIN opts : \E f \in FnsFor(opts[i].elem) :
    \E v \in ElemValues(opts[i].elem) :
      Call("Option.MapOr", OptRef(i), v, f, "", option_MapOr(i, f, v))

DoOptionMapOrElse ==
  \E i \in DOMAIN opts : \E f \in FnsFor(opts[i].elem) :
    \E v \in ElemValues(opts[i].elem) :
      Call("Option.MapOrElse", OptRef(i), v, f, "", option_MapOrElse(i, f, v))

OptionNext ==
  \/ DoSome("T") \/ DoNone("T") \/ DoOptionFromPointer
  \/ DoOptionIsSome \/ DoOptionIsNone
  \/ DoOptionAnd \/ DoOptionOr \/ DoOptionOrElse \/ DoOptionXOr
  \/ DoOptionEqual \/ DoOptionReduce
  \/ DoOptionIsSomeAnd \/ DoOptionIsNoneOr \/ DoOptionFilter \/ DoOptionInspect
  \/ DoOptionExpect \/ DoOptionUnwrap \/ DoOptionUnwrapOrElse
  \/ DoOptionUnwrapOrDefault \/ DoOptionReplace
  \/ DoOptionOkOr \/ DoOptionOkOrElse
  \/ DoOptionAndThen \/ DoOptionMap \/ DoOptionMapOr \/ DoOptionMapOrElse

\* ---------------------------------------------------------------- result calls
DoResultIsOk ==
  \E r \in DOMAIN ress :
    Call("Result.IsOk", ResRef(r), NilV, "", "", R(BoolV(result_IsOk(r))))

DoResultIsError ==
  \E r \in DOMAIN ress :
    Call("Result.IsError", ResRef(r), NilV, "", "", R(BoolV(result_IsError(r))))

DoResultOk ==
  \E r \in DOMAIN ress : Call("Result.Ok", ResRef(r), NilV, "", "", result_Ok(r))

DoResultErr ==
  \E r \in DOMAIN ress : Call("Result.Err", ResRef(r), NilV, "", "", result_Err(r))

DoResultExpect ==
  \E r \in DOMAIN ress : \E m \in Msgs :
    Call("Result.Expect", ResRef(r), NilV, "", m, result_Expect(r, m))

DoResultExpectErr ==
  \E r \in DOMAIN ress : \E m \in Msgs :
    Call("Result.ExpectErr", ResRef(r), NilV, "", m, result_ExpectErr(r, m))

DoResultUnwrap ==
  \E r \in DOMAIN ress :
    Call("Result.Unwrap", ResRef(r), NilV, "", "", result_Unwrap(r))

DoResultUnwrapErr ==
  \E r \in DOMAIN ress :
    Call("Result.UnwrapErr", ResRef(r), NilV, "", "", result_UnwrapErr(r))

DoResultIsOkAnd ==
  \E r \in DOMAIN ress : \E p \in Preds :
    Call("Result.IsOkAnd", ResRef(r), NilV, p, "", result_IsOkAnd(r, p))

DoResultIsErrorAnd ==
  \E r \in DOMAIN ress : \E p \in Preds :
    Call("Result.IsErrorAnd", ResRef(r), NilV, p, "", result_IsErrorAnd(r, p))

DoResultInspect ==
  \E r \in DOMAIN ress :
    Call("Result.Inspect", ResRef(r), NilV, "inspect", "", result_Inspect(r))

DoResultInspectErr ==
  \E r \in DOMAIN ress :
    Call("Result.InspectErr", ResRef(r), NilV, "inspectErr", "", result_InspectErr(r))

DoResultMap ==
  \E r \in DOMAIN ress : \E f \in FnsFor(ress[r].elem) :
    Call("Result.Map", ResRef(r), NilV, f, "", result_Map(r, f))

DoResultMapOr ==
  \E r \in DOMAIN ress : \E f \in FnsFor(ress[r].elem) :
    \E v \in ElemValues(ress[r].elem) :
      Call("Result.MapOr", ResRef(r), v, f, "", result_MapOr(r, f, v))

DoResultMapOrElse ==
  \E r \in DOMAIN ress : \E f \in FnsFor(ress[r].elem) :
    \E v \in ElemValues(ress[r].elem) :
      Call("Result.MapOrElse", ResRef(r), v, f, "", result_MapOrElse(r, f, v))

DoResultMapErr ==
  \E r \in DOMAIN ress : \E err \in ErrArgs :
    Call("Result.MapErr", ResRef(r), err, "mapErr", "", result_MapErr(r, err))

DoResultOr ==
  \E r, o \in DOMAIN ress :
    SameElemR(r, o) /\ Call("Result.Or", ResRef(r), ResRef(o), "", "", result_Or(r, o))

DoResultOrElse ==
  \E r, o \in DOMAIN ress :
    SameElemR(r, o)
    /\ Call("Result.OrElse", ResRef(r), ResRef(o), "orElse", "", result_OrElse(r, o))

DoResultUnwrapOr ==
  \E r \in DOMAIN ress : \E v \in ElemValues(ress[r].elem) :
    Call("Result.UnwrapOr", ResRef(r), v, "", "", result_UnwrapOr(r, v))

DoResultUnwrapOrElse ==
  \E r \in DOMAIN ress : \E v \in ElemValues(ress[r].elem) :
    Call("Result.UnwrapOrElse", ResRef(r), v, "supplier", "", result_UnwrapOrElse(r, v))

DoResultUnwrapOrDefault ==
  \E r \in DOMAIN ress :
    Call("Result.UnwrapOrDefault", ResRef(r), NilV, "", "", result_UnwrapOrDefault(r))

ResultNext ==
  \/ DoOk("T") \/ DoErr("T") \/ DoResultFromReturn
  \/ DoResultIsOk \/ DoResultIsError \/ DoResultOk \/ DoResultErr
  \/ DoResultExpect \/ DoResultExpectErr \/ DoResultUnwrap \/ DoResultUnwrapErr
  \/ DoResultIsOkAnd \/ DoResultIsErrorAnd \/ DoResultInspect \/ DoResultInspectErr
  \/ DoResultMap \/ DoResultMapOr \/ DoResultMapOrElse \/ DoResultMapErr
  \/ DoResultOr \/ DoResultOrElse
  \/ DoResultUnwrapOr \/ DoResultUnwrapOrElse \/ DoResultUnwrapOrDefault

\* ---------------------------------------------------------------- extension calls
DoResultAnd ==
  \E r, o \in DOMAIN ress :
    Call("ResultAnd", ResRef(r), ResRef(o), "", "", ResultAnd(r, o))

DoResultAndThen ==
  \E r, o \in DOMAIN ress :
    Call("ResultAndThen", ResRef(r), ResRef(o), "fn", "", ResultAndThen(r, o))

DoResultMapFn ==
  \E r \in DOMAIN ress : \E f \in FnsFor(ress[r].elem) :
    Call("ResultMap", ResRef(r), NilV, f, "", ResultMap(r, f))

DoResultMapOrFn ==
  \E r \in DOMAIN ress : \E f \in FnsFor(ress[r].elem) :
    \E v \in ElemValues(ress[r].elem) :
      Call("ResultMapOr", ResRef(r), v, f, "", ResultMapOr(r, f, v))

DoResultMapOrElseFn ==
  \E r \in DOMAIN ress : \E f \in FnsFor(ress[r].elem) :
    \E v \in ElemValues(ress[r].elem) :
      Call("ResultMapOrElse", ResRef(r), v, f, "", ResultMapOrElse(r, f, v))

DoOptionFlatten ==
  \E i \in DOMAIN opts :
    opts[i].elem = "opt" /\ Call("OptionFlatten", NilV, OptRef(i), "", "", OptionFlatten(i))

DoOptionTranspose ==
  \E i \in DOMAIN opts :
    opts[i].elem = "res"
    /\ Call("OptionTranspose", NilV, OptRef(i), "", "", OptionTranspose(i))

\* OptionFlatten on an option of options of either depth.
DoOptionFlattenNested ==
  \E i \in DOMAIN opts :
    opts[i].elem \in {"opt", "optopt"}
    /\ CallNested("OptionFlatten", NilV, OptRef(i), "", "", OptionFlatten(i))

\* OptionTranspose with room for the containers it builds.
DoOptionTransposeNested ==
  \E i \in DOMAIN opts :
    opts[i].elem = "res"
    /\ CallNested("OptionTranspose", NilV, OptRef(i), "", "", OptionTranspose(i))

DoResultTranspose ==
  \E r \in DOMAIN ress :
    ress[r].elem = "opt"
    /\ CallNested("ResultTranspose", NilV, ResRef(r), "", "", ResultTranspose(r))

\* ResultTranspose(OptionTranspose(x))
DoResultTransposeBack ==
  /\ last.op = "OptionTranspose"
  /\ Chain("ResultTranspose", last.arg, last.ret, "", "", ResultTranspose(last.ret.a))

\* OptionTranspose(ResultTranspose(y))
DoOptionTransposeBack ==
  /\ last.op = "ResultTranspose"
  /\ last.arg.k = "res"
  /\ last.recv = NilV
  /\ Chain("OptionTranspose", last.arg, last.ret, "", "", OptionTranspose(last.ret.a))

\* OptionFlatten(OptionFlatten(x))
DoOptionFlattenAgain ==
  /\ last.op = "OptionFlatten"
  /\ last.recv = NilV
  /\ opts[last.arg.a].elem = "optopt"
  /\ Chain("OptionFlatten", last.arg, last.ret, "", "", OptionFlatten(last.ret.a))


\* `value = v` by the caller, on the variable whose address it may have given
\* to OptionFromPointer: recv is the value overwritten, arg the value written.
DoWrite ==
  \E v \in ValuesOfT(T) :
    /\ last = NoCall
    /\ v # mem
    /\ mem' = v
    /\ last' = [NoCall EXCEPT !.op = "write", !.recv = mem, !.arg = v]
    /\ UNCHANGED <<T, opts, ress, race>>

\* The Option methods that return an option of the receiver's type.
ReturnsOption ==
  {"Option.Filter", "Option.And", "Option.Or", "Option.OrElse", "Option.Inspect",
   "Option.XOr", "Option.Reduce"}

\* o.Filter(p).Replace(v), o.Or(b).Replace(v), ...: Replace on the option the
\* previous call returned. recv stays the receiver of the previous call and
\* ret is the option Replace was called on.
DoReturnedReplace ==
  /\ last.op \in ReturnsOption
  /\ \E v \in ElemValues(opts[last.ret.a].elem) :
       Chain("Returned.Replace", last.recv, v, "", "", option_Replace(last.ret.a, v))

\* The type argument is recorded in the msg field of the call.
DoMustCast ==
  \E t \in CastTypes : \E original \in AnyValues :
    Call("MustCast", NilV, original, "", t, MustCast(t, original))

DoCastOrZero ==
  \E v \in CastTypes : \E original \in AnyValues :
    Call("CastOrZero", NilV, original, "", v, CastOrZero(v, original))

ExtensionNext ==
  \/ DoResultAnd \/ DoResultAndThen
  \/ DoResultMapFn \/ DoResultMapOrFn \/ DoResultMapOrElseFn
  \/ DoOptionTranspose

NestedNext ==
  \/ DoSome("err") \/ DoNone("err") \/ DoSome("opt") \/ DoNone("opt")
  \/ DoSome("res") \/ DoNone("res") \/ DoOk("opt") \/ DoErr("opt")
  \/ DoOptionFlatten

\* The caller consumes the outcome of the last call and goes on.
Continue ==
  /\ last # NoCall
  /\ last' = NoCall
  /\ UNCHANGED <<T, opts, ress, mem, race>>

Next == OptionNext \/ ResultNext \/ ExtensionNext \/ NestedNext \/ Continue

Spec == Init /\ [][Next]_vars

TypeOK ==
  /\ T \in Types
  /\ Len(opts) + Len(ress) <= MaxObjects
  /\ \A i \in DOMAIN opts : opts[i].elem \in Elems
  /\ \A r \in DOMAIN ress : ress[r].elem \in Elems
\* The Option methods on options of element type T.
NextOption == OptionNext \/ Continue

SpecOption == Init /\ [][NextOption]_vars
\* The Result constructors and methods, the functions of package extension on
\* results, and the Option methods that produce or unwrap a result.
NextResult ==
  \/ ResultNext \/ ExtensionNext
  \/ DoSome("T") \/ DoNone("T") \/ DoSome("res") \/ DoNone("res")
  \/ DoOptionOkOr \/ DoOptionOkOrElse \/ DoOptionExpect \/ DoOptionUnwrap
  \/ Continue

InitResult ==
  /\ T \in {"int", "any"}
  /\ opts = <<>>
  /\ ress = <<>>
  /\ mem = Zero("T")
  /\ last = NoCall
  /\ race = NoRace

SpecResult == InitResult /\ [][NextResult]_vars
\* The constructors of both containers of element type T.
Constructors ==
  \/ DoSome("T") \/ DoNone("T") \/ DoOptionFromPointer \/ DoOk("T") \/ DoErr("T")

\* Both containers side by side: the predicate checks and the Inspect calls.
NextQueries ==
  \/ Constructors
  \/ DoOptionIsSomeAnd \/ DoOptionIsNoneOr \/ DoResultIsOkAnd \/ DoResultIsErrorAnd
  \/ DoOptionInspect \/ DoResultInspect \/ DoResultInspectErr
  \/ Continue

SpecQueries == Init /\ [][NextQueries]_vars

\* Both containers side by side: the lazy and the eager fallbacks.
NextFallbacks ==
  \/ Constructors
  \/ DoOptionUnwrapOrElse \/ DoOptionOrElse \/ DoOptionOkOrElse \/ DoOptionMapOrElse
  \/ DoResultUnwrapOrElse \/ DoResultOrElse
  \/ DoOptionOr \/ DoResultOr \/ DoResultUnwrapOr
  \/ DoOptionUnwrapOrDefault \/ DoResultUnwrapOrDefault
  \/ Continue

SpecFallbacks == Init /\ [][NextFallbacks]_vars

\* Both containers side by side: the conversions between them and the
\* MapOr family.
NextConversions ==
  \/ Constructors
  \/ DoResultOk \/ DoResultErr \/ DoOptionOkOr
  \/ DoOptionMapOr \/ DoOptionMapOrElse \/ DoResultMapOr \/ DoResultMapOrElse
  \/ DoResultMapOrFn \/ DoResultMapOrElseFn
  \/ Continue

SpecConversions == Init /\ [][NextConversions]_vars
\* Options of element type T: the constructors, Filter and Reduce.
NextFilterReduce ==
  \/ DoSome("T") \/ DoNone("T") \/ DoOptionFromPointer
  \/ DoOptionFilter \/ DoOptionReduce
  \/ Continue

SpecFilterReduce == Init /\ [][NextFilterReduce]_vars

\* Results of element type T: the constructors and the operations that
\* chain (Map, MapErr, ResultMap, ResultAnd, ResultAndThen).
NextChains ==
  \/ DoOk("T") \/ DoErr("T") \/ DoResultFromReturn
  \/ DoResultMap \/ DoResultMapErr \/ DoResultMapFn
  \/ DoResultAnd \/ DoResultAndThen
  \/ Continue

SpecChains == Init /\ [][NextChains]_vars
\* Options of element type T: the constructors, Filter and the mapping family.
NextMapping ==
  \/ DoSome("T") \/ DoNone("T") \/ DoOptionFromPointer
  \/ DoOptionFilter
  \/ DoOptionMap \/ DoOptionAndThen \/ DoOptionMapOr \/ DoOptionMapOrElse
  \/ Continue

SpecMapping == Init /\ [][NextMapping]_vars

\* Options of results and results of options: their constructors, the two
\* transposes, and each transpose applied to what the other returned.
NextTranspose ==
  \/ DoOk("T") \/ DoErr("T") \/ DoSome("res") \/ DoNone("res")
  \/ DoSome("T") \/ DoNone("T") \/ DoOk("opt") \/ DoErr("opt")
  \/ DoOptionTransposeNested \/ DoResultTranspose
  \/ DoResultTransposeBack \/ DoOptionTransposeBack
  \/ Continue

SpecTranspose == Init /\ [][NextTranspose]_vars

\* Options nested up to three deep, OptionFlatten, and OptionFlatten applied
\* to what OptionFlatten returned.
NextFlatten ==
  \/ DoSome("T") \/ DoNone("T")
  \/ DoSome("opt") \/ DoNone("opt") \/ DoSome("optopt") \/ DoNone("optopt")
  \/ DoOptionFlattenNested \/ DoOptionFlattenAgain
  \/ Continue

SpecFlatten == Init /\ [][NextFlatten]_vars

\* The three Option constructors and the queries that tell the variant and
\* the value.
NextConstruct ==
  \/ DoSome("T") \/ DoNone("T") \/ DoOptionFromPointer
  \/ DoOptionIsSome \/ DoOptionIsNone \/ DoOptionUnwrap
  \/ Continue

SpecConstruct == Init /\ [][NextConstruct]_vars

\* The Option methods that return an option, and Replace on what they
\* returned.
NextAlias ==
  \/ DoSome("T") \/ DoNone("T") \/ DoOptionFromPointer
  \/ DoOptionFilter \/ DoOptionAnd \/ DoOptionOr \/ DoOptionOrElse
  \/ DoOptionInspect \/ DoOptionXOr \/ DoOptionReduce
  \/ DoReturnedReplace
  \/ Continue

SpecAlias == Init /\ [][NextAlias]_vars

\* Options made from a pointer to the caller's variable, the caller's writes
\* to the variable, the methods that observe the value, and Replace.
NextPointer ==
  \/ DoOptionFromPointer \/ DoSome("T") \/ DoNone("T")
  \/ DoWrite
  \/ DoOptionUnwrap \/ DoOptionExpect \/ DoOptionIsSomeAnd \/ DoOptionEqual
  \/ DoOptionReplace
  \/ Continue

SpecPointer == Init /\ [][NextPointer]_vars

\* Every operation of the library that takes or makes a container, on
\* containers of integers. A call that builds a container leaves the caller
\* with fewer than MaxObjects of them, except that a transpose, which builds
\* two, may fill all MaxObjects.
NextAll ==
  \/ /\ \/ OptionNext \/ ResultNext \/ ExtensionNext
        \/ DoSome("opt") \/ DoNone("opt") \/ DoSome("res") \/ DoNone("res")
        \/ DoOk("opt") \/ DoErr("opt")
        \/ DoOptionFlatten \/ DoResultTranspose
     /\ \/ Len(opts') + Len(ress') < MaxObjects
        \/ Len(opts') + Len(ress') = Len(opts) + Len(ress)
        \/ last'.op \in {"OptionTranspose", "ResultTranspose"}
  \/ Continue

InitAll ==
  /\ T = "int"
  /\ opts = <<>>
  /\ ress = <<>>
  /\ mem = Zero("T")
  /\ last = NoCall
  /\ race = NoRace

SpecAll == InitAll /\ [][NextAll]_vars

\* The two writes of a Replace call. The goroutine makes them in program
\* order, but no synchronisation orders them for the other goroutines, so
\* either may take effect first for a reader.
DoReplaceValue ==
  \E w \in Writers :
    /\ "value" \notin race.done[w]
    /\ race' = option_Replace_value(w)
    /\ UNCHANGED <<T, opts, ress, mem, last>>

DoReplaceAssign ==
  \E w \in Writers :
    /\ "assign" \notin race.done[w]
    /\ race' = option_Replace_assign(w)
    /\ UNCHANGED <<T, opts, ress, mem, last>>

\* A reader reads o.value: at a nil check, or to dereference it.
DoReadField ==
  \E r \in Readers :
    LET rd == race.readers[r]
        out == IF race.field = NilField THEN OnNil(rd.op, rd.reads)
               ELSE IF rd.op = "IsSome" THEN "done"
               ELSE ""
    IN  /\ rd.out = ""
        /\ rd.reads < FieldReads(rd.op)
        /\ race' = [race EXCEPT !.readers[r] =
                      [rd EXCEPT !.reads = @ + 1, !.p = race.field, !.out = out,
                                 !.val = IF out = "done" THEN BoolV(TRUE) ELSE @]]
        /\ UNCHANGED <<T, opts, ress, mem, last>>

\* A reader reads the variable the pointer it read last points to, and
\* returns the value or passes it to its callback.
DoReadValue ==
  \E r \in Readers :
    LET rd == race.readers[r]
    IN  /\ rd.out = ""
        /\ rd.reads = FieldReads(rd.op)
        /\ race' = [race EXCEPT !.readers[r] =
                      [rd EXCEPT !.out = "done", !.val = Pointee(rd.p)]]
        /\ UNCHANGED <<T, opts, ress, mem, last>>

\* The option is Some(init) when the goroutines start: every writer is about
\* to call Replace with its argument, every reader to call its method. T is
\* a type of one machine word.
InitConcurrent ==
  /\ T \in {"int", "ptr"}
  /\ opts = <<>>
  /\ ress = <<>>
  /\ mem = Zero("T")
  /\ last = NoCall
  /\ \E v \in ValuesOfT(T) : \E a \in [Writers -> ValuesOfT(T)] :
       \E o \in [Readers -> ReaderOps] :
         race = [init |-> v, args |-> a, field |-> InitialValue,
                 cells |-> [w \in Writers |-> Zero("T")],
                 done |-> [w \in Writers |-> {}],
                 readers |-> [r \in Readers |->
                               [op |-> o[r], reads |-> 0, p |-> InitialValue,
                                out |-> "", val |-> NilV]]]

NextConcurrent == DoReplaceValue \/ DoReplaceAssign \/ DoReadField \/ DoReadValue

SpecConcurrent == InitConcurrent /\ [][NextConcurrent]_vars

\* The constructors and the methods that return the payload or panic.
NextUnwrap ==
  \/ DoSome("T") \/ DoNone("T") \/ DoOk("T") \/ DoErr("T") \/ DoResultFromReturn
  \/ DoOptionExpect \/ DoOptionUnwrap
  \/ DoResultExpect \/ DoResultUnwrap \/ DoResultExpectErr \/ DoResultUnwrapErr
  \/ Continue

SpecUnwrap == Init /\ [][NextUnwrap]_vars

\* The casting helpers of extension/typed.go.
NextCast == DoMustCast \/ DoCastOrZero \/ Continue

SpecCast == Init /\ [][NextCast]_vars
\* ---------------------------------------------------------------- claims
\* C1: every Result the program holds has exactly one payload slot populated:
\* exactly one of IsOk() and IsError() is true.
C1_ExactlyOnePayload ==
  \A r \in DOMAIN ress : (~ress[r].value.nil) # (ress[r].err # NilV)

ResultTotalOps ==
  {"Result.Map", "Result.MapErr", "Result.MapOr", "Result.MapOrElse", "Result.Or",
   "Result.OrElse", "Result.Inspect", "Result.InspectErr", "Result.Ok", "Result.Err",
   "Result.UnwrapOr", "Result.UnwrapOrElse", "Result.UnwrapOrDefault", "ResultAnd",
   "ResultAndThen", "ResultMap", "ResultMapOr", "ResultMapOrElse", "OptionTranspose"}

\* C2: of the Result operations only Expect, Unwrap, ExpectErr and UnwrapErr
\* can panic: every other operation, OptionTranspose included, returns.
C2_OnlyUnwrapsPanic == last.op \in ResultTotalOps => last.panic = ""

OptionTotalOps ==
  {"Option.Equal", "Option.And", "Option.Or", "Option.OrElse", "Option.XOr",
   "Option.Reduce", "Option.Filter", "Option.Inspect", "Option.Map", "Option.AndThen",
   "Option.MapOr", "Option.MapOrElse", "Option.OkOr", "Option.OkOrElse",
   "Option.IsSomeAnd", "Option.IsNoneOr", "Option.UnwrapOrElse",
   "Option.UnwrapOrDefault", "Option.Replace"}

\* C3: of the Option operations only Expect and Unwrap can panic: every other
\* operation returns, also on Some of a zero value or of a nil interface.
C3_OnlyExpectUnwrapPanic == last.op \in OptionTotalOps => last.panic = ""

\* C4: Equal returns true for two None, false for a Some and a None, a == b
\* for two Some of a comparable type, and for a non-comparable type true
\* exactly when both operands are the same instance.
C4_EqualRules ==
  last.op = "Option.Equal" =>
    LET i == last.recv.a
        j == last.arg.a
        a == opts[i].value
        b == opts[j].value
    IN  /\ last.panic = ""
        /\ last.ret = BoolV(IF a.nil /\ b.nil THEN TRUE
                            ELSE IF a.nil \/ b.nil THEN FALSE
                            ELSE IF T = "map" THEN i = j
                            ELSE Deref(a) = Deref(b))

\* C5: Replace(v) returns the receiver itself, and afterwards that instance
\* is Some and Unwrap() on it returns v, whatever it held before.
C5_ReplaceInPlace ==
  last.op = "Option.Replace" =>
    /\ last.panic = ""
    /\ last.ret = last.recv
    /\ ~opts[last.recv.a].value.nil
    /\ Deref(opts[last.recv.a].value) = last.arg
    /\ option_Unwrap(last.ret.a).panic = ""
    /\ option_Unwrap(last.ret.a).ret = last.arg

C5_Witness ==
  /\ last.op = "Option.Replace"
  /\ ~last.pre.nil
  /\ Deref(last.pre) # last.arg
  /\ Len(opts) >= 2

\* C6: ResultFromReturn(v, err) is an Err holding err when err is not nil,
\* whatever v is, and an Ok holding v when err is nil, also for a zero v.
C6_ResultFromReturn ==
  last.op = "ResultFromReturn" =>
    LET r == last.ret.a
    IN  /\ last.panic = ""
        /\ IF last.arg # NilV
             THEN /\ ress[r].err # NilV
                  /\ ress[r].value.nil
                  /\ result_UnwrapErr(r).panic = ""
                  /\ result_UnwrapErr(r).ret = last.arg
             ELSE /\ ~ress[r].value.nil
                  /\ ress[r].err = NilV
                  /\ result_Unwrap(r).panic = ""
                  /\ result_Unwrap(r).ret = last.recv

C6_Witness ==
  /\ last.op = "ResultFromReturn"
  /\ last.arg = NilV
  /\ last.recv = Zero("T")
  /\ ~ress[last.ret.a].value.nil

\* C7: Expect and ExpectErr panic with exactly the caller's message on the
\* wrong variant and return the payload on the matching one; Unwrap and
\* UnwrapErr do the same with a fixed message, and the message of
\* Option.Unwrap differs from those of Result.Unwrap and Result.UnwrapErr.
C7_PanicMessages ==
  /\ _FAILED_UNWRAP = "failed to unwrap None value"
  /\ _FAILED_UNWRAP # _FAILED_UNWRAP_OK
  /\ _FAILED_UNWRAP # _FAILED_UNWRAP_ERR
  /\ last.op \in {"Option.Expect", "Option.Unwrap"} =>
       LET m == IF last.op = "Option.Expect" THEN last.msg ELSE _FAILED_UNWRAP
       IN  IF last.pre.nil
             THEN last.panic = m
             ELSE last.panic = "" /\ last.ret = Deref(last.pre)
  /\ last.op \in {"Result.Expect", "Result.Unwrap"} =>
       LET m == IF last.op = "Result.Expect" THEN last.msg ELSE _FAILED_UNWRAP_OK
           r == ress[last.recv.a]
       IN  /\ r.err # NilV => last.panic = m
           /\ ~r.value.nil => last.panic = "" /\ last.ret = Deref(r.value)
  /\ last.op \in {"Result.ExpectErr", "Result.UnwrapErr"} =>
       LET m == IF last.op = "Result.ExpectErr" THEN last.msg ELSE _FAILED_UNWRAP_ERR
           r == ress[last.recv.a]
       IN  /\ ~r.value.nil => last.panic = m
           /\ r.err # NilV => last.panic = "" /\ last.ret = r.err

C7_Witness ==
  /\ last.op = "Option.Expect"
  /\ last.pre.nil
  /\ last.panic = last.msg
  /\ \E r \in DOMAIN ress : ress[r].err # NilV

\* C8: And is not the same operation as Or: once the caller holds a Some and
\* a None, some pair of options gets different results from And and from Or.
C8_AndDiffersFromOr ==
  (/\ \E i \in DOMAIN opts : opts[i].elem = "T" /\ opts[i].value.nil
   /\ \E i \in DOMAIN opts : opts[i].elem = "T" /\ ~opts[i].value.nil)
  => \E i, j \in DOMAIN opts :
       SameElem(i, j) /\ option_And(i, j).ret # option_Or(i, j).ret

\* C9: And returns the argument itself when the receiver is None and the
\* receiver itself when the receiver is Some.
C9_And ==
  last.op = "Option.And" =>
    /\ last.panic = ""
    /\ last.ret = IF opts[last.recv.a].value.nil THEN last.arg ELSE last.recv

C9_Witness ==
  /\ last.op = "Option.And"
  /\ last.recv # last.arg
  /\ ~opts[last.recv.a].value.nil
  /\ ~opts[last.arg.a].value.nil
  /\ last.ret = last.recv

\* C10: XOr returns None for two Some and for two None, and a Some holding
\* the value of the one operand that is Some otherwise.
C10_XOr ==
  last.op = "Option.XOr" =>
    /\ last.panic = ""
    /\ LET a == opts[last.recv.a].value
           b == opts[last.arg.a].value
           r == opts[last.ret.a].value
       IN  IF ~a.nil /\ ~b.nil THEN r.nil
           ELSE IF ~a.nil THEN ~r.nil /\ Deref(r) = Deref(a)
           ELSE IF ~b.nil THEN ~r.nil /\ Deref(r) = Deref(b)
           ELSE r.nil

C10_Witness ==
  /\ last.op = "Option.XOr"
  /\ last.recv # last.arg
  /\ ~opts[last.recv.a].value.nil
  /\ ~opts[last.arg.a].value.nil
  /\ opts[last.ret.a].value.nil

\* A step in which the caller makes the call `name`: the unprimed variables
\* are the state before the call, the primed ones the state after it.
Step(name) == last = NoCall /\ last'.op = name

\* C11: Reduce returns a new Some(combine(a, b)) for Some(a) and Some(b), the
\* one Some operand itself, unchanged, when exactly one operand is Some, and
\* a None when both are None; combine runs exactly once, on (a, b), when both
\* are Some and never otherwise.
C11_Reduce ==
  [][
  Step("Option.Reduce") =>
    LET i == last'.recv.a
        j == last'.arg.a
        f == last'.cb
        a == opts[i].value
        b == opts[j].value
    IN  /\ last'.panic = ""
        /\ ress' = ress
        /\ IF ~a.nil /\ ~b.nil
             THEN /\ last'.calls = <<Invoked2(f, Deref(a), Deref(b))>>
                  /\ opts' = Append(opts, option(opts[i].elem,
                                                  Own(ApplyCombine(f, Deref(a), Deref(b)))))
                  /\ last'.ret = OptRef(Len(opts'))
             ELSE /\ last'.calls = <<>>
                  /\ opts' = opts
                  /\ IF ~a.nil THEN last'.ret = OptRef(i)
                     ELSE IF ~b.nil THEN last'.ret = OptRef(j)
                     ELSE last'.ret.k = "opt" /\ opts'[last'.ret.a].value.nil
  ]_vars

C11_Witness ==
  /\ last.op = "Option.Reduce"
  /\ last.recv # last.arg
  /\ ~opts[last.recv.a].value.nil
  /\ ~opts[last.arg.a].value.nil
  /\ Deref(opts[last.recv.a].value) # Deref(opts[last.arg.a].value)
  /\ last.cb = "right"
  /\ Len(last.calls) = 1
  /\ last.ret = OptRef(Len(opts))
  /\ Deref(opts[last.ret.a].value) = Deref(opts[last.arg.a].value)

\* C12: Filter(p) on None returns a None and does not run p; on Some(v) it
\* runs p exactly once, on v, and returns Some(v) when p(v) is true and a
\* None when p(v) is false; the receiver is left as it was.
C12_Filter ==
  [][
  Step("Option.Filter") =>
    LET i == last'.recv.a
        p == last'.cb
        a == opts[i].value
        r == last'.ret
    IN  /\ last'.panic = ""
        /\ ress' = ress
        /\ opts'[i] = opts[i]
        /\ r.k = "opt"
        /\ IF a.nil
             THEN last'.calls = <<>> /\ opts'[r.a].value.nil
             ELSE /\ last'.calls = <<Invoked(p, Deref(a))>>
                  /\ IF ApplyPred(p, Deref(a))
                       THEN /\ ~opts'[r.a].value.nil
                            /\ Deref(opts'[r.a].value) = Deref(a)
                       ELSE opts'[r.a].value.nil
  ]_vars

C12_Witness ==
  /\ last.op = "Option.Filter"
  /\ ~last.pre.nil
  /\ last.cb = "isFirst"
  /\ last.calls = <<Invoked("isFirst", Deref(last.pre))>>
  /\ ~ApplyPred("isFirst", Deref(last.pre))
  /\ opts[last.ret.a].value.nil
  /\ ~opts[last.recv.a].value.nil

C16_Map ==
  [][
  /\ Step("Result.Map") \/ Step("ResultMap") =>
       LET r == ress[last'.recv.a]
           f == last'.cb
       IN  /\ ~r.value.nil =>
                /\ last'.panic = "" /\ opts' = opts
                /\ ress' = Append(ress, result(r.elem, Own(ApplyFn(f, Deref(r.value))), NilV))
                /\ last'.ret = ResRef(Len(ress'))
                /\ last'.calls = <<Invoked(f, Deref(r.value))>>
           /\ r.err # NilV =>
                /\ last'.panic = "" /\ opts' = opts
                /\ ress' = Append(ress, result(r.elem, NilPtr, r.err))
                /\ last'.ret = ResRef(Len(ress'))
                /\ last'.calls = <<>>
  /\ Step("Result.MapErr") =>
       LET r == ress[last'.recv.a]
       IN  /\ ~r.value.nil =>
                /\ last'.panic = "" /\ opts' = opts /\ ress' = ress
                /\ last'.ret = last'.recv
                /\ last'.calls = <<>>
           /\ r.err # NilV =>
                /\ last'.panic = "" /\ opts' = opts
                /\ ress' = Append(ress, result(r.elem, NilPtr, last'.arg))
                /\ last'.ret = ResRef(Len(ress'))
                /\ last'.calls = <<Invoked("mapErr", r.err)>>
  ]_vars

\* A chain of two Maps started from an Err: every result holds the error of
\* the first one and no callback ran.
C16_Witness ==
  /\ last.op = "Result.Map"
  /\ Len(ress) = 3
  /\ last.recv = ResRef(2)
  /\ last.ret = ResRef(3)
  /\ last.calls = <<>>
  /\ ress[1].err # NilV
  /\ ress[2] = ress[1]
  /\ ress[3] = ress[1]

\* C17: Result.MapOr, Result.MapOrElse, ResultMapOr and ResultMapOrElse
\* always return a new result with IsOk() true: Ok(fn(v)) for Ok(v), and
\* Ok(default), respectively Ok(errFn(e)), otherwise; Option.MapOr and
\* Option.MapOrElse return the bare fn(v) or the bare default and make no
\* container.
C17_MapOrRewraps ==
  [][
  /\ Step("Result.MapOr") \/ Step("ResultMapOr")
       \/ Step("Result.MapOrElse") \/ Step("ResultMapOrElse") =>
       LET r == ress[last'.recv.a]
           f == last'.cb
           lazy == last'.op \in {"Result.MapOrElse", "ResultMapOrElse"}
       IN  /\ last'.panic = "" /\ opts' = opts
           /\ last'.ret = ResRef(Len(ress'))
           /\ Len(ress') = Len(ress) + 1
           /\ ~ress'[Len(ress')].value.nil
           /\ ress'[Len(ress')].err = NilV
           /\ IF ~r.value.nil
                THEN /\ ress' = Append(ress, result(r.elem,
                                                    Own(ApplyFn(f, Deref(r.value))), NilV))
                     /\ last'.calls = <<Invoked(f, Deref(r.value))>>
                ELSE /\ ress' = Append(ress, result(r.elem, Own(last'.arg), NilV))
                     /\ last'.calls = IF lazy THEN <<Invoked("orElse", r.err)>> ELSE <<>>
  /\ Step("Option.MapOr") \/ Step("Option.MapOrElse") =>
       LET a == opts[last'.recv.a].value
           f == last'.cb
       IN  /\ last'.panic = "" /\ opts' = opts /\ ress' = ress
           /\ last'.ret = IF a.nil THEN last'.arg ELSE ApplyFn(f, Deref(a))
           /\ opts[last'.recv.a].elem = "T" => last'.ret.k \notin {"opt", "res"}
  ]_vars

C17_Witness ==
  /\ last.op = "Result.MapOrElse"
  /\ ress[last.recv.a].err # NilV
  /\ last.ret = ResRef(Len(ress))
  /\ ~ress[last.ret.a].value.nil
  /\ ress[last.ret.a].err = NilV
  /\ Deref(ress[last.ret.a].value) = last.arg
  /\ last.calls = <<Invoked("orElse", ress[last.recv.a].err)>>
  /\ \E i \in DOMAIN opts : opts[i].value.nil

\* C18: ResultAnd(r, other) returns other itself when r is Ok and otherwise
\* a new Err, of other's success type, holding r's identical error;
\* ResultAndThen(r, fn) runs fn exactly once on v and returns its result when
\* r is Ok(v), and otherwise returns a new Err holding r's identical error
\* without running fn, so a chain of ResultAndThen steps started from an Err
\* runs no callback and keeps the first error.
C18_AndThen ==
  [][
  /\ Step("ResultAnd") =>
       LET r == ress[last'.recv.a]
       IN  /\ last'.panic = "" /\ opts' = opts
           /\ last'.calls = <<>>
           /\ IF ~r.value.nil
                THEN ress' = ress /\ last'.ret = last'.arg
                ELSE /\ ress' = Append(ress, result(ress[last'.arg.a].elem, NilPtr, r.err))
                     /\ last'.ret = ResRef(Len(ress'))
  /\ Step("ResultAndThen") =>
       LET r == ress[last'.recv.a]
       IN  /\ last'.panic = "" /\ opts' = opts
           /\ IF ~r.value.nil
                THEN /\ ress' = ress /\ last'.ret = last'.arg
                     /\ last'.calls = <<Invoked("fn", Deref(r.value))>>
                ELSE /\ ress' = Append(ress, result(ress[last'.arg.a].elem, NilPtr, r.err))
                     /\ last'.ret = ResRef(Len(ress'))
                     /\ last'.calls = <<>>
  ]_vars

\* ResultAndThen on an Err with a callback that would have returned an Ok.
C18_Witness ==
  /\ last.op = "ResultAndThen"
  /\ ress[last.recv.a].err # NilV
  /\ ~ress[last.arg.a].value.nil
  /\ last.calls = <<>>
  /\ last.ret = ResRef(Len(ress))
  /\ last.ret # last.recv
  /\ ress[last.ret.a].value.nil
  /\ ress[last.ret.a].err = ress[last.recv.a].err

\* C19: the conversions keep the variant and the payload and consume
\* nothing. Ok() returns a new Some(v) for Ok(v) and a new None for an Err;
\* Err() returns a new None for Ok(v) and a new Some(e) for an Err holding a
\* non-nil e; OkOr(err) returns a new Ok(v) for Some(v) and a new Err(err)
\* for None; the receiver and every other container stay as they were.
C19_Conversions ==
  [][
  /\ Step("Result.Ok") =>
       LET r == ress[last'.recv.a]
       IN  /\ last'.panic = "" /\ ress' = ress /\ last'.calls = <<>>
           /\ last'.ret = OptRef(Len(opts'))
           /\ ~r.value.nil => opts' = Append(opts, option(r.elem, Own(Deref(r.value))))
           /\ r.err # NilV => opts' = Append(opts, option(r.elem, NilPtr))
  /\ Step("Result.Err") =>
       LET r == ress[last'.recv.a]
       IN  /\ last'.panic = "" /\ ress' = ress /\ last'.calls = <<>>
           /\ last'.ret = OptRef(Len(opts'))
           /\ ~r.value.nil => opts' = Append(opts, option("err", NilPtr))
           /\ r.err # NilV => opts' = Append(opts, option("err", Own(r.err)))
  /\ Step("Option.OkOr") =>
       LET i == last'.recv.a
           a == opts[i].value
       IN  /\ last'.panic = "" /\ opts' = opts /\ last'.calls = <<>>
           /\ last'.ret = ResRef(Len(ress'))
           /\ ress' = Append(ress, IF a.nil
                                     THEN result(opts[i].elem, NilPtr, last'.arg)
                                     ELSE result(opts[i].elem, Own(Deref(a)), NilV))
  ]_vars

C19_Witness ==
  /\ last.op = "Result.Err"
  /\ ress[last.recv.a].err # NilV
  /\ ress[last.recv.a].value.nil
  /\ last.ret = OptRef(Len(opts))
  /\ opts[last.ret.a] = option("err", Own(ress[last.recv.a].err))
  /\ \E r \in DOMAIN ress : ~ress[r].value.nil

Applies(name) == last' # last /\ last'.op = name

\* C22: OptionTranspose turns None into Ok(None), Some(Ok(v)) into
\* Ok(Some(v)) with the same v, and Some(Err(e)) with a non-nil e into Err(e)
\* with the identical error, without a panic and without changing its input.
C22_OptionTranspose ==
  [][
  Applies("OptionTranspose") =>
    LET i == last'.arg.a
        out == last'.ret.a
    IN  IF opts[i].value.nil
          THEN /\ last'.panic = ""
               /\ last'.ret.k = "res"
               /\ ress'[out].err = NilV
               /\ ~ress'[out].value.nil
               /\ Deref(ress'[out].value).k = "opt"
               /\ opts'[Deref(ress'[out].value).a].value.nil
               /\ opts'[i] = opts[i]
        ELSE LET inner == ress[Deref(opts[i].value).a]
             IN  /\ inner.err = NilV /\ ~inner.value.nil =>
                       /\ last'.panic = ""
                       /\ last'.ret.k = "res"
                       /\ ress'[out].err = NilV
                       /\ ~ress'[out].value.nil
                       /\ Deref(ress'[out].value).k = "opt"
                       /\ ~opts'[Deref(ress'[out].value).a].value.nil
                       /\ Deref(opts'[Deref(ress'[out].value).a].value)
                            = Deref(inner.value)
                       /\ opts'[i] = opts[i]
                       /\ ress'[Deref(opts[i].value).a] = inner
                 /\ inner.err # NilV =>
                       /\ last'.panic = ""
                       /\ last'.ret.k = "res"
                       /\ ress'[out].err = inner.err
                       /\ ress'[out].value.nil
                       /\ opts' = opts
                       /\ ress'[Deref(opts[i].value).a] = inner
  ]_vars

\* OptionTranspose(Some(Ok(v))) returned an Ok holding a Some that holds v.
C22_Witness ==
  /\ last.op = "OptionTranspose"
  /\ last.panic = ""
  /\ ~opts[last.arg.a].value.nil
  /\ ress[Deref(opts[last.arg.a].value).a].err = NilV
  /\ ~ress[last.ret.a].value.nil
  /\ ~opts[Deref(ress[last.ret.a].value).a].value.nil
  /\ Deref(opts[Deref(ress[last.ret.a].value).a].value)
       = Deref(ress[Deref(opts[last.arg.a].value).a].value)

\* An option of a result that is None, Some(Ok(v)) or Some(Err(e)) with a
\* non-nil e.
WellFormedOption(i) ==
  \/ opts[i].value.nil
  \/ LET inner == ress[Deref(opts[i].value).a]
     IN  (inner.err # NilV) # (~inner.value.nil)

\* A result of an option that is Ok(None), Ok(Some(v)) or Err(e) with a
\* non-nil e.
WellFormedResult(r) == (ress[r].err # NilV) # (~ress[r].value.nil)

C24_Flatten ==
  [][
  /\ Applies("OptionFlatten") =>
       LET i == last'.arg.a
       IN  /\ last'.panic = ""
           /\ ress' = ress
           /\ IF opts[i].value.nil
                THEN /\ opts' = Append(opts, option(Inner(opts[i].elem), NilPtr))
                     /\ last'.ret = OptRef(Len(opts) + 1)
                ELSE /\ opts' = opts
                     /\ last'.ret = Deref(opts[i].value)
                     /\ opts'[last'.ret.a].elem = Inner(opts[i].elem)
  /\ Applies("OptionFlatten") /\ last'.recv.k = "opt" =>
       LET x == opts[last'.recv.a]
       IN  /\ last.op = "OptionFlatten" /\ last.arg = last'.recv
           /\ last'.arg = last.ret
           /\ opts'[last'.ret.a].elem = "T"
           /\ ~x.value.nil /\ ~opts[Deref(x.value).a].value.nil
               /\ ~opts[Deref(opts[Deref(x.value).a].value).a].value.nil =>
                 /\ opts[last.ret.a].elem = "opt"
                 /\ Deref(opts[last.ret.a].value).k = "opt"
                 /\ ~opts'[last'.ret.a].value.nil
                 /\ Deref(opts'[last'.ret.a].value)
                      = Deref(opts[Deref(opts[Deref(x.value).a].value).a].value)
                 /\ Deref(opts'[last'.ret.a].value).k # "opt"
  ]_vars

\* OptionFlatten(OptionFlatten(Some(Some(Some(x))))) returned Some(x).
C24_Witness ==
  /\ last.op = "OptionFlatten"
  /\ last.recv.k = "opt"
  /\ opts[last.recv.a].elem = "optopt"
  /\ ~opts[last.recv.a].value.nil
  /\ ~opts[last.arg.a].value.nil
  /\ opts[last.arg.a].elem = "opt"
  /\ Deref(opts[last.recv.a].value) = last.arg
  /\ opts[last.ret.a].elem = "T"
  /\ ~opts[last.ret.a].value.nil

\* C25: the constructor fixes the variant. The option Some(v) returns answers
\* IsSome with true and IsNone with false and unwraps to v, for every v, the
\* zero value and nil included; the one None() returns answers IsSome with
\* false and IsNone with true; the one OptionFromPointer(p) returns is None
\* exactly when p is nil and otherwise a Some that unwraps to the value p
\* points to. IsSome and IsNone return the variant of the receiver, and on
\* every option IsSome is the negation of IsNone.
C25_Constructors ==
  [][
  /\ Step("Some") =>
       \E n \in 1..(MaxObjects + 1) :
         /\ last'.ret = OptRef(n) /\ last'.panic = ""
         /\ option_IsSome(n)' /\ ~option_IsNone(n)'
         /\ option_Unwrap(n)'.panic = ""
         /\ option_Unwrap(n)'.ret = last'.arg
  /\ Step("None") =>
       \E n \in 1..(MaxObjects + 1) :
         /\ last'.ret = OptRef(n) /\ last'.panic = ""
         /\ ~option_IsSome(n)' /\ option_IsNone(n)'
  /\ Step("OptionFromPointer") =>
       \E n \in 1..(MaxObjects + 1) :
         /\ last'.ret = OptRef(n) /\ last'.panic = ""
         /\ option_IsNone(n)' = (last'.arg.a = NilPtr.cell)
         /\ option_IsSome(n)' = (last'.arg.a # NilPtr.cell)
         /\ last'.arg.a # NilPtr.cell =>
              /\ option_Unwrap(n)'.panic = ""
              /\ option_Unwrap(n)'.ret = mem
  /\ Step("Option.IsSome") =>
       last'.ret = BoolV(~opts[last'.recv.a].value.nil) /\ opts' = opts
  /\ Step("Option.IsNone") =>
       last'.ret = BoolV(opts[last'.recv.a].value.nil) /\ opts' = opts
  /\ \A i \in DOMAIN opts : option_IsSome(i) = ~option_IsNone(i)
  ]_vars

\* IsSome was asked of a Some holding nil and answered true.
C25_Witness ==
  /\ last.op = "Option.IsSome"
  /\ last.ret = BoolV(TRUE)
  /\ opts[last.recv.a].value = Own(NilV)
  /\ \E i \in DOMAIN opts : opts[i].value = CellPtr
  /\ \E i \in DOMAIN opts : opts[i].value = NilPtr

C27_Independent ==
  [][
  last.op \in ReturnsOption /\ last'.op = "Returned.Replace" =>
    /\ opts'[last.recv.a] = opts[last.recv.a]
    /\ last.arg.k = "opt" => opts'[last.arg.a] = opts[last.arg.a]
  ]_vars

\* C27: Filter, And, Or, OrElse, Inspect, XOr and Reduce return either a new
\* option or the receiver or argument instance itself, and Replace on the
\* returned option changes exactly the instance it is called on: that
\* instance becomes Some(v) and every other option is unchanged. So the
\* receiver and the argument keep their variant and value when the returned
\* option is a new instance or the other one of the two, and the one that was
\* returned itself is replaced.
C27_ReplaceChangesOneInstance ==
  [][
  /\ last = NoCall /\ last'.op \in ReturnsOption =>
       \/ last'.ret = last'.recv /\ opts' = opts
       \/ last'.ret = last'.arg /\ last'.arg.k = "opt" /\ opts' = opts
       \/ /\ last'.ret = OptRef(Len(opts) + 1)
          /\ Len(opts') = Len(opts) + 1
          /\ \A j \in DOMAIN opts : opts'[j] = opts[j]
  /\ last.op \in ReturnsOption /\ last'.op = "Returned.Replace" =>
       LET r == last.ret.a
       IN  /\ last'.panic = ""
           /\ last'.ret = last.ret
           /\ DOMAIN opts' = DOMAIN opts
           /\ opts'[r].value = Own(last'.arg)
           /\ \A j \in DOMAIN opts : j # r => opts'[j] = opts[j]
           /\ last.recv.a # r => opts'[last.recv.a] = opts[last.recv.a]
           /\ last.arg.k = "opt" /\ last.arg.a # r
                => opts'[last.arg.a] = opts[last.arg.a]
  ]_vars

\* a.Filter(p).Replace(v) with p accepting the value of a, or another of the
\* calls that returned its receiver a: a, which held another value before,
\* now holds v.
C27_Witness ==
  /\ last.op = "Returned.Replace"
  /\ last.ret = last.recv
  /\ ~last.pre.nil
  /\ Deref(last.pre) # last.arg
  /\ opts[last.recv.a].value = Own(last.arg)

C29_OnlyReplaceMutates ==
  [][
  /\ \A r \in DOMAIN ress : r \in DOMAIN ress' /\ ress'[r] = ress[r]
  /\ \A i \in DOMAIN opts : i \in DOMAIN opts' /\ opts'[i].elem = opts[i].elem
  /\ last'.op # "Option.Replace" =>
       /\ \A i \in DOMAIN opts : opts'[i] = opts[i]
       /\ mem' = mem
  ]_vars

\* UnwrapOrDefault was called on a None while a result and another option
\* existed; it returned the zero value and the receiver is still None.
C29_Witness ==
  /\ last.op = "Option.UnwrapOrDefault"
  /\ opts[last.recv.a].value.nil
  /\ last.ret = Zero(opts[last.recv.a].elem)
  /\ Len(ress) > 0

====
